---------------------------- MODULE Spec2Model ----------------------------
(***************************************************************************)
(* The task execution engine of turbo: RealRun and execContext.exec        *)
(* (cli/internal/run/real_run.go), calculateGlobalHash and                 *)
(* getHashableTurboEnvVarsFromOs (global hash inputs), and the cold/warm   *)
(* run sequence of integration_tests/basic_monorepo/global_env.t.          *)
(*                                                                         *)
(* Three specifications share the module:                                  *)
(*   Spec     one or more consecutive runs of RealRun over a task graph    *)
(*   SpecAgg  the exit-code aggregation loop over arbitrary error lists    *)
(*   SpecEnv  calculateGlobalHash over pairs of process environments       *)
(***************************************************************************)
EXTENDS Integers, Sequences, FiniteSets, TLC

\* ------------------------------------------------------------------ bounds
NumTasks == 2
MaxConcurrency == 2
MaxExitCode == 2
MaxRuns == 2
NumInputs == 2
MaxErrs == 3
MaxFaults == 1

Tasks == 1..NumTasks
Inputs == 1..NumInputs

VARIABLES
    \* ---- inputs of a run (runSpec, engine.TaskGraph, file system and env)
    deps,            \* engine.TaskGraph: task -> its prerequisites (DownEdges)
    command,         \* packageTask.Command per task ("" = no script)
    opts,            \* rs.Opts.runOpts: parallel, concurrency, continueOnError
    inputs,          \* everything the task hash is computed from
    \* ---- scheduler (core.Engine.Execute)
    pc,              \* position of each task's visitor
    result,          \* what each visitor returned
    errs,            \* the errors Execute returns
    cancelled,       \* the cancellation signal has been raised
    \* ---- supervisor (process.Manager)
    procState,       \* open / closing / closed
    live,            \* tasks whose child is registered in the live set
    signalled,       \* children that were sent the interrupt
    \* ---- cache (cache.Cache behind runcache)
    cache,           \* fingerprints stored; survives from run to run
    shutdownCalls,   \* calls of turboCache.Shutdown in this run
    \* ---- executor
    hash,            \* the hash each visitor computed
    ts,              \* the taskSummary each visitor built (lines 123-140)
    runState,        \* RunState: per task the tracer events recorded
    taskSummaryMap,  \* the map of line 92
    execRes,         \* what processes.Exec returned to each visitor
    childCode,       \* exit code of each task's child (-1: none exited)
    spawned,         \* tasks whose command was started by the supervisor
    saveCalls,       \* per task, number of SaveOutputs invocations
    stored,          \* tasks whose SaveOutputs succeeded
    restoreErr,      \* tasks whose RestoreOutputs returned an error
    onError,         \* tasks for which taskCache.OnError was called
    \* ---- RealRun after Execute
    mainPC,          \* position of RealRun itself
    exitCode,        \* exitCode of lines 158-169
    errIdx,          \* how many of errs the loop of line 161 has consumed
    ranged,          \* keys the loop of line 174 has visited
    summaryTasks,    \* summary.Tasks
    runStateMu,      \* runState.mu is held
    returned,        \* how RealRun ended ("none" while it runs)
    \* ---- sequence of runs (global_env.t)
    run,             \* number of the current run
    prevBuilt,       \* fingerprints an earlier run built and stored
    faults,          \* environment faults (I/O errors) injected so far
    \* ---- calculateGlobalHash
    envPC,           \* "off", "start" or "done"
    declared,        \* envVarDependencies: the names the user declared
    env1, env2,      \* two process environments (os.Environ())
    hashable1,       \* calculateGlobalHash's record under env1
    hashable2,       \* ... and under env2
    fromOs1          \* getHashableTurboEnvVarsFromOs(env1)

cfgVars == <<deps, command, opts, inputs>>
schedVars == <<pc, result, errs, cancelled>>
procVars == <<procState, live, signalled>>
cacheVars == <<cache, shutdownCalls>>
visitVars == <<hash, ts, runState, taskSummaryMap, execRes, childCode,
               spawned, saveCalls, stored, restoreErr, onError>>
mainVars == <<mainPC, exitCode, errIdx, ranged, summaryTasks, runStateMu,
              returned>>
seqVars == <<run, prevBuilt, faults>>
runVars == <<cfgVars, schedVars, procVars, cacheVars, visitVars, mainVars,
             seqVars>>
envVars == <<envPC, declared, env1, env2, hashable1, hashable2, fromOs1>>
vars == <<runVars, envVars>>

\* ------------------------------------------------------------------ faults
\* An operation of a collaborator (hashing, cache I/O, log writer, process
\* start, profiler, renderer) either works or fails; the number of failures
\* in one behaviour is bounded by MaxFaults.
Outcomes == IF faults < MaxFaults THEN BOOLEAN ELSE {TRUE}
Count(ok) == IF ok THEN faults ELSE faults + 1

\* ------------------------------------------------------------------ errors
NoErr == [kind |-> "nil", code |-> 0]
ErrClosing == [kind |-> "ErrClosing", code |-> 0]
OtherErr == [kind |-> "Other", code |-> 0]
ChildExit(c) == [kind |-> "ChildExit", code |-> c]

\* ------------------------------------------------------- task hash, cache
\* taskhash.Tracker.CalculateTaskHash: a deterministic function of the task
\* and its inputs; on error the returned hash is the empty string.
EmptyHash == <<>>
CalculateTaskHash(t, in, ok) == IF ok THEN <<t, in>> ELSE EmptyHash

\* cache.Cache: Exists / Fetch answer from the stored fingerprints; Put adds.
CacheExists(c, h) == h \in c
CachePut(c, h) == c \cup {h}

\* ---------------------------------------------------------------- options
\* lines 86-90: the options RealRun hands to engine.Execute
\* (variant: the pool is made one larger than configured)
ExecOptsWide == [Parallel |-> opts.parallel, Concurrency |-> opts.concurrency + 1]
ExecOpts == [Parallel |-> opts.parallel, Concurrency |-> opts.concurrency]

\* -------------------------------------------------------------- scheduler
\* core.Engine.Execute walks the graph: a vertex is visited once every
\* prerequisite's visitor has returned nil; no work is issued once cancelled.
\* (variant: a prerequisite only has to have returned)
ReadyAnyResult(t) == \A d \in deps[t] : pc[d] = "done"
Ready(t) == \A d \in deps[t] : pc[d] = "done" /\ result[d] = NoErr
InFlight == {t \in Tasks : pc[t] \notin {"waiting", "done"}}
SemaFree == ExecOpts.Parallel \/ Cardinality(InFlight) < ExecOpts.Concurrency
Issuable(t) == pc[t] = "waiting" /\ Ready(t) /\ ~cancelled

\* the visitor returns err to the walker, which collects the non-nil ones
VisitorReturn(t, err) ==
    /\ pc' = [pc EXCEPT ![t] = "done"]
    /\ result' = [result EXCEPT ![t] = err]
    /\ errs' = IF err = NoErr THEN errs ELSE Append(errs, err)

\* ------------------------------------------------------------- supervisor
\* process.Manager.Close and the signal handler: leave open, interrupt every
\* live child; closed once no child is left.
\* (variant: Close leaves the supervisor open)
AfterCloseStaysOpen(state, liveNow) == state
AfterClose(state, liveNow) ==
    IF state = "open"
    THEN (IF liveNow = {} THEN "closed" ELSE "closing")
    ELSE state
\* a child is unregistered: the last one out of a closing supervisor closes it
\* (variant: the supervisor opens again once it is empty)
AfterUnregisterReopens(state, liveNow) ==
    IF state = "closing" /\ liveNow = {} THEN "open" ELSE state
AfterUnregister(state, liveNow) ==
    IF state = "closing" /\ liveNow = {} THEN "closed" ELSE state
\* process.Manager.Exec's result once the child has exited with code c
ExecResult(state, c) ==
    IF state # "open" THEN ErrClosing
    ELSE IF c = 0 THEN NoErr ELSE ChildExit(c)

\* --------------------------------------------------------------- RunState
\* runState.Run(taskID) registers the task; the tracer it returns records an
\* outcome each time it is called.
Tracer(rs, t, outcome) == [rs EXCEPT ![t] = Append(@, outcome)]

\* ============================================================ the visitor
\* execFunc lines 96-140 and exec lines 231-255: the scheduler issues t, the
\* visitor hashes the task, asks the cache whether the hash exists, builds the
\* summary, registers the task with the RunState, and returns at once when the
\* package has no such script.
AfterHash(cmd) == IF cmd = "" THEN "writing" ELSE "restore"

StartVisit(t) ==
    /\ mainPC = "executing"
    /\ Issuable(t)
    /\ SemaFree
    /\ \E hashOK \in Outcomes :
          LET h == CalculateTaskHash(t, inputs, hashOK)
          IN  /\ faults' = Count(hashOK)
              /\ hash' = [hash EXCEPT ![t] = h]
              /\ ts' = [ts EXCEPT ![t] = [TaskID |-> t, Hash |-> h,
                                          CacheState |-> CacheExists(cache, h),
                                          RunSummary |-> <<>>]]
    /\ runState' = [runState EXCEPT ![t] = <<"running">>]
    /\ pc' = [pc EXCEPT ![t] = AfterHash(command[t])]
    /\ UNCHANGED <<cfgVars, result, errs, cancelled, procVars, cacheVars,
                   taskSummaryMap, execRes, childCode, spawned, saveCalls, stored,
                   restoreErr, onError, mainVars, run, prevBuilt, envVars>>

\* exec lines 267-283: RestoreOutputs. A read error is logged and treated as
\* a miss; a hit records TargetCached and returns nil, nil.
\* (variant: a hit does not return)
AfterRestoreNoReturn(ok, hit) == "writer"
\* (variant: a read error returns like a hit)
AfterRestoreErrReturns(ok, hit) == IF ~ok \/ hit THEN "writing" ELSE "writer"
AfterRestore(ok, hit) ==
    IF ~ok THEN "writer" ELSE IF hit THEN "writing" ELSE "writer"

Restore(t) ==
    /\ mainPC = "executing"
    /\ pc[t] = "restore"
    /\ \E ok \in Outcomes :
          LET hit == CacheExists(cache, hash[t])
              to == AfterRestore(ok, hit)
          IN  /\ faults' = Count(ok)
              /\ restoreErr' = IF ok THEN restoreErr ELSE restoreErr \cup {t}
              /\ pc' = [pc EXCEPT ![t] = to]
              /\ runState' = IF to = "writing"
                             THEN Tracer(runState, t, "cached")
                             ELSE runState
    /\ UNCHANGED <<cfgVars, result, errs, cancelled, procVars, cacheVars,
                   hash, ts, taskSummaryMap, execRes, childCode, spawned,
                   saveCalls, stored, onError, mainVars, run, prevBuilt, envVars>>

\* exec lines 301-308: OutputWriter. On error the task is traced as failed
\* and, unless continueOnError is set, the process exits on the spot.
OpenWriter(t) ==
    /\ mainPC = "executing"
    /\ pc[t] = "writer"
    /\ \E ok \in Outcomes :
          /\ faults' = Count(ok)
          /\ IF ok
             THEN /\ pc' = [pc EXCEPT ![t] = "spawn"]
                  /\ UNCHANGED <<runState, mainPC, returned>>
             ELSE /\ runState' = Tracer(runState, t, "build-failed")
                  /\ IF ~opts.continueOnError
                     THEN /\ mainPC' = "exited"
                          /\ returned' = "os.Exit(1)"
                          /\ pc' = pc
                     ELSE /\ pc' = [pc EXCEPT ![t] = "spawn"]
                          /\ UNCHANGED <<mainPC, returned>>
    /\ UNCHANGED <<cfgVars, result, errs, cancelled, procVars, cacheVars,
                   hash, ts, taskSummaryMap, execRes, childCode, spawned,
                   saveCalls, stored, restoreErr, onError, exitCode, errIdx, ranged,
                   summaryTasks, runStateMu, run, prevBuilt, envVars>>

\* exec lines 301-343: when OutputWriter failed and continueOnError is set, the
\* visitor goes on with the writer that came back with the error. What that
\* value is the source does not say: a usable writer, or nil, in which case
\* the child's first log line or closeOutputs (line 332, called at line 348
\* or 373 once Exec has returned) dereferences nil and the process panics.
WriterFailed(t) ==
    /\ pc[t] \in {"spawn", "running"}
    /\ runState[t] = <<"running", "build-failed">>

NilWriter(t) ==
    /\ mainPC = "executing"
    /\ WriterFailed(t)
    /\ mainPC' = "crashed"
    /\ returned' = "panic"
    /\ UNCHANGED <<cfgVars, schedVars, procVars, cacheVars, visitVars,
                   exitCode, errIdx, ranged, summaryTasks, runStateMu,
                   seqVars, envVars>>

\* exec lines 354-366: processes.Exec returned err, which is not ErrClosing.
\* liveNow is the live set once this task's child (if any) is unregistered.
\* Without continueOnError the visitor calls processes.Close(), which blocks
\* until every child has exited; with it the visitor warns and goes on.
\* line 366: what the visitor returns once the failure has been handled
\* (variant: with continueOnError the failure is swallowed)
FailureResultDemoted(err, continueOnError) ==
    IF continueOnError THEN NoErr ELSE err
FailureResult(err, continueOnError) == err

ExecFailed(t, err, liveNow) ==
    /\ runState' = Tracer(runState, t, "build-failed")
    /\ execRes' = [execRes EXCEPT ![t] = err]
    /\ live' = liveNow
    /\ IF ~opts.continueOnError
       THEN /\ procState' = AfterClose(procState, liveNow)
            /\ signalled' = IF procState = "open" THEN liveNow ELSE signalled
            /\ pc' = [pc EXCEPT ![t] = "closeWait"]
            /\ UNCHANGED <<result, errs, onError>>
       ELSE /\ onError' = onError \cup {t}
            /\ VisitorReturn(t, FailureResult(err, opts.continueOnError))
            /\ UNCHANGED <<procState, signalled>>

\* exec lines 346-367: where the visitor goes with what Exec returned
\* (variant: ErrClosing is taken for success)
AfterExecClosingSaves(r) ==
    IF r = NoErr \/ r = ErrClosing THEN "save" ELSE "failed"
\* (variant: ErrClosing is handled like any other error)
AfterExecClosingFails(r) == IF r = NoErr THEN "save" ELSE "failed"
AfterExec(r) ==
    IF r = NoErr THEN "save"
    ELSE IF r = ErrClosing THEN "writing"
    ELSE "failed"

\* exec line 346, first half: processes.Exec refuses when the supervisor has
\* left open, may fail to start the command, or registers the child.
Spawn(t) ==
    /\ mainPC = "executing"
    /\ pc[t] = "spawn"
    /\ \/ /\ procState # "open"
          /\ execRes' = [execRes EXCEPT ![t] = ErrClosing]
          /\ pc' = [pc EXCEPT ![t] = AfterExec(ErrClosing)]
          /\ UNCHANGED <<result, errs, procVars, runState, spawned, onError,
                         faults>>
       \/ /\ procState = "open"
          /\ live' = live \cup {t}
          /\ spawned' = spawned \cup {t}
          /\ pc' = [pc EXCEPT ![t] = "running"]
          /\ UNCHANGED <<result, errs, procState, signalled, runState,
                         execRes, onError, faults>>
       \/ /\ procState = "open"
          /\ FALSE \in Outcomes
          /\ faults' = Count(FALSE)
          /\ ExecFailed(t, OtherErr, live)
          /\ UNCHANGED spawned
    /\ UNCHANGED <<cfgVars, cancelled, cacheVars, hash, ts, taskSummaryMap,
                   childCode, saveCalls, stored, restoreErr, mainVars, run,
                   prevBuilt, envVars>>

\* exec line 346, second half: the child exits with code c and Exec returns.
ChildExits(t) ==
    /\ mainPC = "executing"
    /\ pc[t] = "running"
    /\ \E c \in 0..MaxExitCode :
          LET r == ExecResult(procState, c)
              liveNow == live \ {t}
              to == AfterExec(r)
          IN  /\ childCode' = [childCode EXCEPT ![t] = c]
              /\ IF to = "failed"
                 THEN ExecFailed(t, r, liveNow)
                 ELSE /\ execRes' = [execRes EXCEPT ![t] = r]
                      /\ live' = liveNow
                      /\ procState' = AfterUnregister(procState, liveNow)
                      /\ pc' = [pc EXCEPT ![t] = to]
                      /\ UNCHANGED <<result, errs, signalled, runState,
                                     onError>>
    /\ UNCHANGED <<cfgVars, cancelled, cacheVars, hash, ts, taskSummaryMap,
                   spawned, saveCalls, stored, restoreErr, mainVars, seqVars,
                   envVars>>

\* exec lines 358-366: Close() has returned (no child is left); the on-error
\* hook runs and the error goes back to the scheduler.
CloseReturns(t) ==
    /\ mainPC = "executing"
    /\ pc[t] = "closeWait"
    /\ live = {}
    /\ onError' = onError \cup {t}
    /\ VisitorReturn(t, FailureResult(execRes[t], opts.continueOnError))
    /\ UNCHANGED <<cfgVars, cancelled, procVars, cacheVars, hash, ts,
                   runState, taskSummaryMap, execRes, childCode, spawned,
                   saveCalls, stored, restoreErr, mainVars, seqVars, envVars>>

\* exec lines 369-384: the child exited zero. Outputs are closed and, when
\* that worked, saved; a failing save is logged. The task is traced as built.
Save(t) ==
    /\ mainPC = "executing"
    /\ pc[t] = "save"
    /\ \E closeOK \in Outcomes :
          IF closeOK
          THEN \E storeOK \in Outcomes :
                  /\ faults' = Count(storeOK)
                  /\ saveCalls' = [saveCalls EXCEPT ![t] = @ + 1]
                  /\ cache' = IF storeOK THEN CachePut(cache, hash[t])
                              ELSE cache
                  /\ stored' = IF storeOK THEN stored \cup {t} ELSE stored
          ELSE /\ faults' = Count(closeOK)
               /\ UNCHANGED <<saveCalls, stored, cache>>
    /\ runState' = Tracer(runState, t, "built")
    /\ pc' = [pc EXCEPT ![t] = "writing"]
    /\ UNCHANGED <<cfgVars, result, errs, cancelled, procVars, shutdownCalls,
                   hash, ts, taskSummaryMap, execRes, childCode, spawned,
                   restoreErr, onError, mainVars, run, prevBuilt, envVars>>

\* execFunc lines 149-151: exec returned nil; the summary goes into the map,
\* with no lock held. Two visitors inside the assignment at once are a data
\* race on a Go map: both writes may land, one may be lost, or the runtime
\* aborts the process ("concurrent map writes").
MapPut(m, k, v) == [x \in (DOMAIN m) \cup {k} |-> IF x = k THEN v ELSE m[x]]

WriteSummary(t) ==
    /\ mainPC = "executing"
    /\ pc[t] = "writing"
    /\ LET raced == \E u \in Tasks \ {t} : pc[u] = "writing"
       IN  \/ /\ taskSummaryMap' = MapPut(taskSummaryMap, t, ts[t])
              /\ VisitorReturn(t, NoErr)
              /\ UNCHANGED <<mainPC, returned>>
           \/ /\ raced
              /\ taskSummaryMap' = taskSummaryMap
              /\ VisitorReturn(t, NoErr)
              /\ UNCHANGED <<mainPC, returned>>
           \/ /\ raced
              /\ mainPC' = "crashed"
              /\ returned' = "fatal error"
              /\ UNCHANGED <<taskSummaryMap, pc, result, errs>>
    /\ UNCHANGED <<cfgVars, cancelled, procVars, cacheVars, hash, ts,
                   runState, execRes, childCode, spawned, saveCalls, stored,
                   restoreErr, onError, exitCode, errIdx, ranged,
                   summaryTasks, runStateMu, seqVars, envVars>>

\* SIGINT / SIGTERM: the supervisor leaves open and interrupts every live
\* child; the run's context is cancelled.
Signal ==
    /\ mainPC = "executing"
    /\ procState = "open"
    /\ procState' = AfterClose(procState, live)
    /\ signalled' = live
    /\ cancelled' = TRUE
    /\ UNCHANGED <<cfgVars, pc, result, errs, live, cacheVars, visitVars,
                   mainVars, seqVars, envVars>>

\* ================================================= RealRun after Execute
\* line 155: engine.Execute returns once no visitor is in flight and nothing
\* more can be issued.
EngineReturns ==
    /\ mainPC = "executing"
    /\ InFlight = {}
    /\ \A t \in Tasks : ~Issuable(t)
    /\ mainPC' = "aggregate"
    /\ UNCHANGED <<cfgVars, schedVars, procVars, cacheVars, visitVars,
                   exitCode, errIdx, ranged, summaryTasks, runStateMu,
                   returned, seqVars, envVars>>

\* lines 161-171: one iteration of the loop over errs
\* (variant: any other error sets the code to 1)
AggStepOverwrite(code, err) ==
    IF err.kind = "ChildExit"
    THEN (IF err.code > code THEN err.code ELSE code)
    ELSE 1
AggStep(code, err) ==
    IF err.kind = "ChildExit"
    THEN (IF err.code > code THEN err.code ELSE code)
    ELSE IF code = 0 THEN 1 ELSE code

AggregateStep ==
    /\ mainPC = "aggregate"
    /\ errIdx < Len(errs)
    /\ exitCode' = AggStep(exitCode, errs[errIdx + 1])
    /\ errIdx' = errIdx + 1
    /\ UNCHANGED <<cfgVars, schedVars, procVars, cacheVars, visitVars,
                   mainPC, ranged, summaryTasks, runStateMu, returned,
                   seqVars, envVars>>

AggregateDone ==
    /\ mainPC = "aggregate"
    /\ errIdx = Len(errs)
    /\ mainPC' = "append"
    /\ UNCHANGED <<cfgVars, schedVars, procVars, cacheVars, visitVars,
                   exitCode, errIdx, ranged, summaryTasks, runStateMu,
                   returned, seqVars, envVars>>

\* lines 174-176: range over the map, each key once, in any order
\* (variant: keys already visited come up again)
RangeNextAgain(m, seen) == DOMAIN m
RangeNext(m, seen) == (DOMAIN m) \ seen

AppendSummary ==
    /\ mainPC = "append"
    /\ \E k \in RangeNext(taskSummaryMap, ranged) :
          /\ summaryTasks' = Append(summaryTasks, taskSummaryMap[k])
          /\ ranged' = ranged \cup {k}
    /\ UNCHANGED <<cfgVars, schedVars, procVars, cacheVars, visitVars,
                   mainPC, exitCode, errIdx, runStateMu, returned, seqVars,
                   envVars>>

\* lines 178-184: the RunState mutex is taken and each recorded state is
\* assigned to t.RunSummary, t being a copy of the map's entry.
MergeRunState ==
    /\ mainPC = "append"
    /\ RangeNext(taskSummaryMap, ranged) = {}
    /\ runStateMu' = TRUE
    /\ mainPC' = "close"
    /\ UNCHANGED <<cfgVars, schedVars, procVars, cacheVars, visitVars,
                   exitCode, errIdx, ranged, summaryTasks, returned, seqVars,
                   envVars>>

\* lines 186-203: runState.Close, then the return value
Finish ==
    /\ mainPC = "close"
    /\ \E profOK \in Outcomes :
          IF ~profOK
          THEN /\ returned' = "profiler error"
               /\ faults' = Count(profOK)
          ELSE IF exitCode # 0
          THEN /\ returned' = "ChildExit"
               /\ faults' = faults
          ELSE \E renderOK \in Outcomes :
                  /\ returned' = IF renderOK THEN "nil" ELSE "render error"
                  /\ faults' = Count(renderOK)
    /\ mainPC' = "deferred"
    /\ UNCHANGED <<cfgVars, schedVars, procVars, cacheVars, visitVars,
                   exitCode, errIdx, ranged, summaryTasks, runStateMu,
                   run, prevBuilt, envVars>>

\* lines 65-67: the deferred turboCache.Shutdown, run as RealRun returns
Shutdown ==
    /\ mainPC = "deferred"
    /\ shutdownCalls' = shutdownCalls + 1
    /\ mainPC' = "returned"
    /\ UNCHANGED <<cfgVars, schedVars, procVars, cache, visitVars, exitCode,
                   errIdx, ranged, summaryTasks, runStateMu, returned,
                   seqVars, envVars>>

\* ============================================================ run by run
RunEnded == mainPC \in {"returned", "exited", "crashed"}

\* the state RealRun starts from
Fresh ==
    [pc |-> [t \in Tasks |-> "waiting"],
     result |-> [t \in Tasks |-> NoErr],
     errs |-> <<>>,
     cancelled |-> FALSE,
     procState |-> "open",
     live |-> {},
     signalled |-> {},
     shutdownCalls |-> 0,
     hash |-> [t \in Tasks |-> EmptyHash],
     ts |-> [t \in Tasks |-> <<>>],
     runState |-> [t \in Tasks |-> <<>>],
     taskSummaryMap |-> <<>>,
     execRes |-> [t \in Tasks |-> NoErr],
     childCode |-> [t \in Tasks |-> -1],
     spawned |-> {},
     saveCalls |-> [t \in Tasks |-> 0],
     stored |-> {},
     restoreErr |-> {},
     onError |-> {},
     mainPC |-> "executing",
     exitCode |-> 0,
     errIdx |-> 0,
     ranged |-> {},
     summaryTasks |-> <<>>,
     runStateMu |-> FALSE,
     returned |-> "none"]

FreshRun ==
    /\ pc = Fresh.pc
    /\ result = Fresh.result
    /\ errs = Fresh.errs
    /\ cancelled = Fresh.cancelled
    /\ procState = Fresh.procState
    /\ live = Fresh.live
    /\ signalled = Fresh.signalled
    /\ shutdownCalls = Fresh.shutdownCalls
    /\ hash = Fresh.hash
    /\ ts = Fresh.ts
    /\ runState = Fresh.runState
    /\ taskSummaryMap = Fresh.taskSummaryMap
    /\ execRes = Fresh.execRes
    /\ childCode = Fresh.childCode
    /\ spawned = Fresh.spawned
    /\ saveCalls = Fresh.saveCalls
    /\ stored = Fresh.stored
    /\ restoreErr = Fresh.restoreErr
    /\ onError = Fresh.onError
    /\ mainPC = Fresh.mainPC
    /\ exitCode = Fresh.exitCode
    /\ errIdx = Fresh.errIdx
    /\ ranged = Fresh.ranged
    /\ summaryTasks = Fresh.summaryTasks
    /\ runStateMu = Fresh.runStateMu
    /\ returned = Fresh.returned

StartRun ==
    /\ pc' = Fresh.pc
    /\ result' = Fresh.result
    /\ errs' = Fresh.errs
    /\ cancelled' = Fresh.cancelled
    /\ procState' = Fresh.procState
    /\ live' = Fresh.live
    /\ signalled' = Fresh.signalled
    /\ shutdownCalls' = Fresh.shutdownCalls
    /\ hash' = Fresh.hash
    /\ ts' = Fresh.ts
    /\ runState' = Fresh.runState
    /\ taskSummaryMap' = Fresh.taskSummaryMap
    /\ execRes' = Fresh.execRes
    /\ childCode' = Fresh.childCode
    /\ spawned' = Fresh.spawned
    /\ saveCalls' = Fresh.saveCalls
    /\ stored' = Fresh.stored
    /\ restoreErr' = Fresh.restoreErr
    /\ onError' = Fresh.onError
    /\ mainPC' = Fresh.mainPC
    /\ exitCode' = Fresh.exitCode
    /\ errIdx' = Fresh.errIdx
    /\ ranged' = Fresh.ranged
    /\ summaryTasks' = Fresh.summaryTasks
    /\ runStateMu' = Fresh.runStateMu
    /\ returned' = Fresh.returned

\* global_env.t: the command is run again, on the cache the earlier runs
\* left, with the same or with changed inputs.
NextRun ==
    /\ RunEnded
    /\ run < MaxRuns
    /\ run' = run + 1
    /\ inputs' \in Inputs
    /\ prevBuilt' = prevBuilt \cup {hash[t] : t \in stored}
    /\ StartRun
    /\ UNCHANGED <<deps, command, opts, cache, faults, envVars>>

EnvOff ==
    /\ envPC = "off"
    /\ declared = <<>>
    /\ env1 = <<>>
    /\ env2 = <<>>
    /\ hashable1 = <<>>
    /\ hashable2 = <<>>
    /\ fromOs1 = <<>>

\* task graphs: acyclic, prerequisites numbered below their dependents
Graphs == {g \in [Tasks -> SUBSET Tasks] : \A t \in Tasks : g[t] \subseteq 1..(t - 1)}

Init ==
    /\ deps \in Graphs
    /\ command \in [Tasks -> {"", "build"}]
    /\ opts \in [parallel : BOOLEAN, concurrency : 1..MaxConcurrency,
                 continueOnError : BOOLEAN]
    /\ inputs = 1
    /\ cache = {}
    /\ run = 1
    /\ prevBuilt = {}
    /\ faults = 0
    /\ FreshRun
    /\ EnvOff

Visit(t) ==
    \/ StartVisit(t)
    \/ Restore(t)
    \/ OpenWriter(t)
    \/ NilWriter(t)
    \/ Spawn(t)
    \/ ChildExits(t)
    \/ CloseReturns(t)
    \/ Save(t)
    \/ WriteSummary(t)

Next ==
    \/ \E t \in Tasks : Visit(t)
    \/ Signal
    \/ EngineReturns
    \/ AggregateStep
    \/ AggregateDone
    \/ AppendSummary
    \/ MergeRunState
    \/ Finish
    \/ Shutdown
    \/ NextRun

Spec == Init /\ [][Next]_vars

\* =========================================== exit-code aggregation alone
\* The errors a visitor can hand to the scheduler: what processes.Exec
\* returned, a ChildExit with a non-zero code or some other error.
ErrorValues == {OtherErr} \cup {ChildExit(c) : c \in 1..MaxExitCode}

RECURSIVE SeqsUpTo(_, _)
SeqsUpTo(S, n) ==
    IF n = 0 THEN {<<>>}
    ELSE LET shorter == SeqsUpTo(S, n - 1)
         IN  shorter \cup {Append(s, x) : s \in shorter, x \in S}

RunIdle ==
    /\ deps = [t \in Tasks |-> {}]
    /\ command = [t \in Tasks |-> ""]
    /\ opts = [parallel |-> FALSE, concurrency |-> 1, continueOnError |-> FALSE]
    /\ inputs = 1
    /\ cache = {}
    /\ run = 1
    /\ prevBuilt = {}
    /\ faults = 0

\* RealRun at line 157, with any list of errors back from engine.Execute
InitAgg ==
    /\ RunIdle
    /\ pc = [t \in Tasks |-> "done"]
    /\ errs \in SeqsUpTo(ErrorValues, MaxErrs)
    /\ mainPC = "aggregate"
    /\ result = Fresh.result
    /\ cancelled = Fresh.cancelled
    /\ procState = Fresh.procState
    /\ live = Fresh.live
    /\ signalled = Fresh.signalled
    /\ shutdownCalls = Fresh.shutdownCalls
    /\ hash = Fresh.hash
    /\ ts = Fresh.ts
    /\ runState = Fresh.runState
    /\ taskSummaryMap = Fresh.taskSummaryMap
    /\ execRes = Fresh.execRes
    /\ childCode = Fresh.childCode
    /\ spawned = Fresh.spawned
    /\ saveCalls = Fresh.saveCalls
    /\ stored = Fresh.stored
    /\ restoreErr = Fresh.restoreErr
    /\ onError = Fresh.onError
    /\ exitCode = Fresh.exitCode
    /\ errIdx = Fresh.errIdx
    /\ ranged = Fresh.ranged
    /\ summaryTasks = Fresh.summaryTasks
    /\ runStateMu = Fresh.runStateMu
    /\ returned = Fresh.returned
    /\ EnvOff

NextAgg ==
    \/ AggregateStep
    \/ AggregateDone

SpecAgg == InitAgg /\ [][NextAgg]_vars

\* ==================================================== calculateGlobalHash
\* Strings are sequences of characters, so that splitting, substring search
\* and sorting are computed rather than assumed.
EQ == "="
Concat(a, b) == a \o b

\* the characters in use, in ASCII order
Alphabet == <<"=", "A", "C", "D", "E", "H", "I", "L", "M", "N", "O", "R",
              "S", "T", "V", "Y", "_", "h", "i">>
Ord(c) == CHOOSE i \in 1..Len(Alphabet) : Alphabet[i] = c

\* strings.Contains(s, sub)
Contains(s, sub) ==
    \E i \in 0..(Len(s) - Len(sub)) :
        \A j \in 1..Len(sub) : s[i + j] = sub[j]

\* strings.SplitN(e, "=", 2): the text before the first "=" and the rest
FirstEq(e) ==
    IF \E i \in 1..Len(e) : e[i] = EQ
    THEN CHOOSE i \in 1..Len(e) : e[i] = EQ /\ \A j \in 1..(i - 1) : e[j] # EQ
    ELSE Len(e) + 1
SplitN2(e) ==
    LET i == FirstEq(e)
    IN  IF i > Len(e) THEN <<e>>
        ELSE <<SubSeq(e, 1, i - 1), SubSeq(e, i + 1, Len(e))>>

\* Go's string order: byte-wise, a proper prefix first
RECURSIVE StrLess(_, _)
StrLess(a, b) ==
    IF a = <<>> THEN b # <<>>
    ELSE IF b = <<>> THEN FALSE
    ELSE IF Ord(Head(a)) < Ord(Head(b)) THEN TRUE
    ELSE IF Ord(Head(a)) > Ord(Head(b)) THEN FALSE
    ELSE StrLess(Tail(a), Tail(b))

\* sort.Strings over a set of distinct strings
RECURSIVE SortStrings(_)
SortStrings(S) ==
    IF S = {} THEN <<>>
    ELSE LET least == CHOOSE x \in S : \A y \in S \ {x} : StrLess(x, y)
         IN  <<least>> \o SortStrings(S \ {least})

\* line 19
GlobalCacheKey == "Buffalo buffalo Buffalo buffalo buffalo buffalo Buffalo buffalo"
\* lines 22-24: "VERCEL_ANALYTICS_ID"
DefaultEnvVars ==
    << <<"V", "E", "R", "C", "E", "L", "_", "A", "N", "A", "L", "Y", "T", "I",
         "C", "S", "_", "I", "D">> >>
\* line 45: the matcher handed to env.GetHashableGlobalENVVars
\* (variant: the matcher is one character short)
THAS == <<"T", "H", "A", "S">>
THASH == <<"T", "H", "A", "S", "H">>

\* os.Getenv over an environment given as "NAME=value" entries
Getenv(env, name) ==
    IF \E i \in 1..Len(env) : SplitN2(env[i])[1] = name
    THEN LET i == CHOOSE k \in 1..Len(env) : SplitN2(env[k])[1] = name
         IN  IF Len(SplitN2(env[i])) = 2 THEN SplitN2(env[i])[2] ELSE <<>>
    ELSE <<>>

\* env.GetHashableGlobalENVVars(keys, matchers): every key contributes with
\* its current value (absent = empty string); every variable of the process
\* environment whose name contains a matcher contributes too. The result maps
\* names to values.
GetHashableGlobalENVVars(env, keys, matchers) ==
    LET explicit == {keys[i] : i \in 1..Len(keys)}
        matched == {SplitN2(env[i])[1] : i \in
                      {k \in 1..Len(env) :
                         \E m \in 1..Len(matchers) :
                            Contains(SplitN2(env[k])[1], matchers[m])}}
    IN  [n \in explicit \cup matched |-> Getenv(env, n)]

\* EnvironmentVariableMap.ToHashable: "NAME=value" strings, sorted
ToHashable(m) == SortStrings({Concat(n, Concat(<<EQ>>, m[n])) : n \in DOMAIN m})

\* lines 26-32
EmptyGlobalHashable ==
    [globalFileHashMap |-> <<>>, rootExternalDepsHash |-> "",
     hashedSortedEnvPairs |-> <<>>, globalCacheKey |-> "", pipeline |-> ""]

\* lines 41-47: the names that feed the global hash
\* (variant: the default names are left out)
GlobalEnvKeysNoDefaults(envVarDependencies) == envVarDependencies
GlobalEnvKeys(envVarDependencies) == envVarDependencies \o DefaultEnvVars

\* lines 34-107. filesOK: globbing and hashing the global file dependencies
\* worked; otherwise the empty record goes back with the error.
calculateGlobalHash(env, envVarDependencies, filesOK) ==
    LET envVarsList == GlobalEnvKeys(envVarDependencies)
        globalHashableEnvVars ==
            GetHashableGlobalENVVars(env, envVarsList, <<THASH>>)
        globalHashableEnvPairs == ToHashable(globalHashableEnvVars)
    IN  IF ~filesOK THEN EmptyGlobalHashable
        ELSE [globalFileHashMap |-> "globalFileHashMap",
              rootExternalDepsHash |-> "ExternalDepsHash",
              hashedSortedEnvPairs |-> globalHashableEnvPairs,
              globalCacheKey |-> GlobalCacheKey,
              pipeline |-> "pipeline.Pristine()"]

\* lines 109-122
RECURSIVE getHashableTurboEnvVarsFromOs(_)
getHashableTurboEnvVarsFromOs(env) ==
    IF env = <<>> THEN [justNames |-> <<>>, pairs |-> <<>>]
    ELSE LET e == env[Len(env)]
             before == getHashableTurboEnvVarsFromOs(SubSeq(env, 1, Len(env) - 1))
             kv == SplitN2(e)
         IN  IF Contains(kv[1], THASH)
             THEN [justNames |-> Append(before.justNames, kv[1]),
                   pairs |-> Append(before.pairs, e)]
             ELSE before

\* ---- the environments the check ranges over (names of global_env.t)
SomeEnvVar == <<"S", "O", "M", "E">>
WildVar == <<"A", "_", "T", "H", "A", "S", "H", "_", "Y">>
NearVar == <<"T", "H", "A", "S", "_", "H">>
VercelVar == DefaultEnvVars[1]
EnvNames == <<NearVar, SomeEnvVar, VercelVar, WildVar>>
EnvValues == {<<>>, <<"h", "i">>}

\* os.Environ() for an assignment of values to some of the names
RECURSIVE Environ(_, _)
Environ(assign, i) ==
    IF i > Len(EnvNames) THEN <<>>
    ELSE (IF EnvNames[i] \in DOMAIN assign
          THEN <<Concat(EnvNames[i], Concat(<<EQ>>, assign[EnvNames[i]]))>>
          ELSE <<>>) \o Environ(assign, i + 1)

Assignments ==
    UNION {[S -> EnvValues] : S \in SUBSET {EnvNames[i] : i \in 1..Len(EnvNames)}}
Environments == {Environ(a, 1) : a \in Assignments}
\* what the user may declare as global env dependencies
Declarations == {<<>>, <<SomeEnvVar>>, <<WildVar>>, <<SomeEnvVar, WildVar>>}

\* the start of a run, before the global hash is computed, in two process
\* environments over the same repository
InitEnv ==
    /\ RunIdle
    /\ FreshRun
    /\ envPC = "start"
    /\ declared \in Declarations
    /\ env1 \in Environments
    /\ env2 \in Environments
    /\ hashable1 = <<>>
    /\ hashable2 = <<>>
    /\ fromOs1 = <<>>

GlobalHash ==
    /\ envPC = "start"
    /\ \E filesOK \in BOOLEAN :
          /\ hashable1' = calculateGlobalHash(env1, declared, filesOK)
          /\ hashable2' = calculateGlobalHash(env2, declared, filesOK)
    /\ fromOs1' = getHashableTurboEnvVarsFromOs(env1)
    /\ envPC' = "done"
    /\ UNCHANGED <<runVars, declared, env1, env2>>

NextEnv == GlobalHash

SpecEnv == InitEnv /\ [][NextEnv]_vars

\* ================================================================ claims

\* ---- C1 -----------------------------------------------------------------
RECURSIVE AncestorsWithin(_, _)
AncestorsWithin(t, n) ==
    IF n = 0 THEN {}
    ELSE deps[t] \cup UNION {AncestorsWithin(d, n - 1) : d \in deps[t]}
\* every task t depends on, directly or through other tasks
Prerequisites(t) == AncestorsWithin(t, NumTasks)

\* C1: DAG safety. A task's visitor has started only if the visitor of every
\* prerequisite has returned, and returned no error; a task one of whose
\* prerequisites returned an error has not been visited.
C1_DagSafety ==
    \A t \in Tasks :
        /\ pc[t] # "waiting" =>
              \A d \in Prerequisites(t) : pc[d] = "done" /\ result[d] = NoErr
        /\ (\E d \in Prerequisites(t) : result[d] # NoErr) => pc[t] = "waiting"

\* a dependent is visited after its prerequisite ran its command
C1_Witness ==
    \E t \in Tasks : \E d \in deps[t] : pc[t] # "waiting" /\ d \in spawned

\* ---- C2 -----------------------------------------------------------------
\* C2: concurrency bound. With parallel off, the visitors in flight never
\* number more than the configured concurrency; with parallel on, every task
\* that can be issued can start at once, whatever the concurrency.
C2_ConcurrencyBound ==
    /\ ~opts.parallel => Cardinality(InFlight) <= opts.concurrency
    /\ (opts.parallel /\ mainPC = "executing") =>
          \A t \in Tasks : Issuable(t) => ENABLED StartVisit(t)

\* the bound binds: the pool is full and a ready task is held back
C2_Witness ==
    /\ ~opts.parallel
    /\ mainPC = "executing"
    /\ Cardinality(InFlight) = opts.concurrency
    /\ \E t \in Tasks : Issuable(t)

\* ---- C3 -----------------------------------------------------------------
\* C3: SaveOutputs is invoked for a task only after its child was run by the
\* supervisor and exited zero: never on a cache hit, for an empty command,
\* after a non-zero exit or after ErrClosing.
C3_StoreAfterZeroExit ==
    \A t \in Tasks :
        saveCalls[t] > 0 =>
            /\ t \in spawned
            /\ childCode[t] = 0
            /\ execRes[t] = NoErr
            /\ command[t] # ""
            /\ \A i \in 1..Len(runState[t]) :
                  runState[t][i] # "cached"

C3_Witness ==
    \E t \in Tasks : saveCalls[t] = 1 /\ t \in stored /\ hash[t] \in cache

\* ---- C4 -----------------------------------------------------------------
\* lines 158-171 as a whole: the loop over errs, starting from code
RECURSIVE AggLoop(_, _)
AggLoop(es, code) ==
    IF es = <<>> THEN code ELSE AggLoop(Tail(es), AggStep(code, Head(es)))

ChildCodes(es) ==
    {es[i].code : i \in {k \in 1..Len(es) :
                           es[k].kind = "ChildExit" /\ es[k].code # 0}}
MaxOf(S) == CHOOSE x \in S : \A y \in S : y <= x
Reorderings(es) ==
    {[i \in 1..Len(es) |-> es[p[i]]] :
        p \in {q \in [1..Len(es) -> 1..Len(es)] :
                 \A i, j \in 1..Len(es) : i # j => q[i] # q[j]}}

C5_ShutdownExactlyOnce ==
    /\ mainPC \in {"returned", "exited"} => shutdownCalls = 1
    /\ shutdownCalls > 0 => InFlight = {}

\* ---- C6 -----------------------------------------------------------------
\* the fingerprint of task t under the current inputs
Fingerprint(t) == CalculateTaskHash(t, inputs, TRUE)
PastRestore(t) == pc[t] \notin {"waiting", "restore"}
WarmHit(t) ==
    /\ hash[t] = Fingerprint(t)
    /\ runState[t] = <<"running", "cached">>
    /\ t \notin spawned
    /\ saveCalls[t] = 0

\* C6 as stated: once an earlier run has built t under fingerprint H and
\* stored it, a later run with the same inputs computes H, restores, records
\* cached, and neither spawns nor stores.
C6_WarmHitAsStated ==
    \A t \in Tasks :
        (run > 1 /\ Fingerprint(t) \in prevBuilt /\ PastRestore(t)) => WarmHit(t)

\* C6, amended: ... a later run with the same inputs in which neither the
\* hash computation nor the cache read fails computes H, restores, records
\* cached, and neither spawns nor stores.
C6_WarmHit ==
    \A t \in Tasks :
        (/\ run > 1
         /\ Fingerprint(t) \in prevBuilt
         /\ PastRestore(t)
         /\ hash[t] # EmptyHash
         /\ t \notin restoreErr) => WarmHit(t)

C6_Witness ==
    \E t \in Tasks :
        /\ run > 1
        /\ Fingerprint(t) \in prevBuilt
        /\ pc[t] = "done"
        /\ WarmHit(t)

\* ---- C9 -----------------------------------------------------------------
\* C9: at most once. No task ID occurs twice in summary.Tasks.
C9_AtMostOnce ==
    \A i, j \in 1..Len(summaryTasks) :
        i # j => summaryTasks[i].TaskID # summaryTasks[j].TaskID

\* a run that returned with every task in the summary
C9_Witness ==
    /\ mainPC = "returned"
    /\ Len(summaryTasks) = NumTasks
    /\ NumTasks > 1

\* ---- C10 ----------------------------------------------------------------
\* C10: writes to the task summary map exclude each other: no two visitors
\* are inside the write of their entry at once.
C10_MapWritesExclusive ==
    Cardinality({t \in Tasks : pc[t] = "writing"}) <= 1

\* ---- C7 -----------------------------------------------------------------
\* the substring the claims speak of
Marker == <<"T", "H", "A", "S", "H">>
AllNames == {EnvNames[i] : i \in 1..Len(EnvNames)}
IsSet(env, n) == \E i \in 1..Len(env) : SplitN2(env[i])[1] = n
Computed(h) == h.globalCacheKey = GlobalCacheKey
PairNames(h) ==
    {SplitN2(h.hashedSortedEnvPairs[i])[1] : i \in 1..Len(h.hashedSortedEnvPairs)}
HasPair(h, n, v) ==
    \E i \in 1..Len(h.hashedSortedEnvPairs) :
        h.hashedSortedEnvPairs[i] = Concat(n, Concat(<<EQ>>, v))
Declared(n) == \E i \in 1..Len(declared) : declared[i] = n
AlwaysHashed(n) == Contains(n, Marker) \/ n = VercelVar
\* env2 is env1 with n, unset in env1, set
SetsOnly(n) ==
    /\ ~IsSet(env1, n)
    /\ IsSet(env2, n)
    /\ \A m \in AllNames \ {n} :
          /\ IsSet(env1, m) <=> IsSet(env2, m)
          /\ Getenv(env1, m) = Getenv(env2, m)

\* C7 as stated: a variable whose name contains THASH, and likewise
\* VERCEL_ANALYTICS_ID, is in the global env-pair list iff it is set in the
\* process environment, declared or not; so setting one changes the global
\* hash input.
C7_EnvSelectionAsStated ==
    (envPC = "done" /\ Computed(hashable1) /\ Computed(hashable2)) =>
        \A n \in AllNames :
            AlwaysHashed(n) =>
                /\ n \in PairNames(hashable1) <=> IsSet(env1, n)
                /\ SetsOnly(n) => hashable1 # hashable2

\* C7, amended: a variable whose name contains THASH and that the user did
\* not declare is in the list iff it is set; VERCEL_ANALYTICS_ID and every
\* declared variable are always in the list, with the empty string for a
\* value when unset; so setting a THASH variable or VERCEL_ANALYTICS_ID to a
\* non-empty value changes the global hash input. The THASH names
\* getHashableTurboEnvVarsFromOs returns are those set in the environment.
C7_EnvSelection ==
    (envPC = "done" /\ Computed(hashable1) /\ Computed(hashable2)) =>
        \A n \in AllNames :
            /\ (Contains(n, Marker) /\ ~Declared(n)) =>
                  (n \in PairNames(hashable1) <=> IsSet(env1, n))
            /\ (n = VercelVar \/ Declared(n)) =>
                  HasPair(hashable1, n, Getenv(env1, n))
            /\ (AlwaysHashed(n) /\ SetsOnly(n) /\ Getenv(env2, n) # <<>>) =>
                  hashable1 # hashable2
            /\ (\E i \in 1..Len(fromOs1.justNames) : fromOs1.justNames[i] = n)
                  <=> (Contains(n, Marker) /\ IsSet(env1, n))

\* a THASH variable is set and VERCEL_ANALYTICS_ID is not; setting it changes
\* the record
C7_Witness ==
    /\ envPC = "done"
    /\ Computed(hashable1)
    /\ declared = <<>>
    /\ IsSet(env1, WildVar)
    /\ WildVar \in PairNames(hashable1)
    /\ SetsOnly(VercelVar)
    /\ Getenv(env2, VercelVar) # <<>>
    /\ hashable1 # hashable2

\* ---- C8 -----------------------------------------------------------------
Relevant(n) == Declared(n) \/ n = VercelVar \/ Contains(n, Marker)
AgreeOnRelevant ==
    \A n \in AllNames :
        Relevant(n) =>
            /\ IsSet(env1, n) <=> IsSet(env2, n)
            /\ Getenv(env1, n) = Getenv(env2, n)

Rank(state) == CASE state = "open" -> 0 [] state = "closing" -> 1 [] OTHER -> 2

\* C11: within a run the supervisor only moves forward through open, closing,
\* closed; an Exec issued once it has left open returns ErrClosing and
\* registers no child; every child live when it leaves open is signalled.
C11_SupervisorLifecycle ==
    [][run' = run =>
          /\ Rank(procState') >= Rank(procState)
          /\ \A t \in Tasks :
                (procState # "open" /\ pc[t] = "spawn" /\ pc'[t] # "spawn")
                    => /\ execRes'[t] = ErrClosing
                       /\ t \notin live'
                       /\ t \notin spawned'
          /\ (procState = "open" /\ procState' # "open")
                => live' \subseteq signalled']_vars

\* a child was interrupted, the supervisor is still closing, and an Exec
\* issued after the transition was refused
C11_Witness ==
    /\ procState = "closing"
    /\ signalled # {}
    /\ \E t \in Tasks : execRes[t] = ErrClosing /\ t \notin spawned /\ t \notin live

\* ------------------------------------------------------------------- C12
\* C12 as stated: without continueOnError and without a signal from outside,
\* a child exiting non-zero does not make the supervisor interrupt the
\* children of peer tasks.
C12_PeersRunToCompletion ==
    \A t \in Tasks :
        (~opts.continueOnError /\ ~cancelled /\ execRes[t].kind = "ChildExit")
            => signalled = {}

\* C12: with continueOnError and no signal from outside the supervisor stays
\* open and no child is interrupted; without continueOnError a child exiting
\* non-zero closes the supervisor, and every peer child still live has been
\* interrupted.
C12_FailureClosesSupervisor ==
    /\ (opts.continueOnError /\ ~cancelled)
          => (signalled = {} /\ procState = "open")
    /\ \A t \in Tasks :
          (~opts.continueOnError /\ execRes[t].kind = "ChildExit")
              => (procState # "open" /\ live \subseteq signalled)

\* no signal from outside, a child exited non-zero, and a running peer was
\* interrupted
C12_Witness ==
    /\ ~opts.continueOnError
    /\ ~cancelled
    /\ \E t \in Tasks : \E u \in Tasks \ {t} :
          /\ execRes[t].kind = "ChildExit"
          /\ u \in signalled
          /\ u \in spawned

\* ------------------------------------------------------------------- C13
\* C13: a task whose hash computation failed has returned an error to the
\* scheduler without restoring, spawning or storing.
C13_HashErrorReturns ==
    \A t \in Tasks :
        (pc[t] # "waiting" /\ hash[t] = EmptyHash)
            => /\ pc[t] = "done"
               /\ result[t] # NoErr
               /\ t \notin spawned
               /\ saveCalls[t] = 0
               /\ "cached" \notin {runState[t][i] : i \in DOMAIN runState[t]}

\* ------------------------------------------------------------------- C14
Events(t) == {runState[t][i] : i \in DOMAIN runState[t]}

\* C14: a task whose RestoreOutputs returned an error is never recorded as
\* cached, has gone on to processes.Exec by the time its visitor is at the
\* summary write or has returned, and when it returned an error, that error
\* is the one Exec gave.
C14_ReadErrorIsMiss ==
    \A t \in restoreErr :
        /\ pc[t] # "restore"
        /\ "cached" \notin Events(t)
        /\ pc[t] \in {"writing", "done"} => (t \in spawned \/ execRes[t] # NoErr)
        /\ (pc[t] = "done" /\ result[t] # NoErr) => result[t] = execRes[t]

\* the outputs were in the cache, the read failed, the command ran and the
\* visitor returned
C14_Witness ==
    \E t \in restoreErr :
        /\ CacheExists(cache, hash[t])
        /\ hash[t] \in prevBuilt
        /\ t \in spawned
        /\ pc[t] = "done"

\* ------------------------------------------------------------------- C15
\* C15 as stated: a task whose child exited non-zero has had the on-error
\* hook called and build-failed recorded, and its visitor returned the error
\* without continueOnError and nil with it.
C15_ChildFailureHandling ==
    \A t \in Tasks :
        (pc[t] = "done" /\ execRes[t].kind = "ChildExit")
            => /\ t \in onError
               /\ "build-failed" \in Events(t)
               /\ result[t] = IF opts.continueOnError THEN NoErr ELSE execRes[t]

\* C15: a task whose child exited non-zero has had the on-error hook called
\* and build-failed recorded, and its visitor returned the child's error to
\* the scheduler whether or not continueOnError is set.
C15_ChildFailureReturnsError ==
    \A t \in Tasks :
        (pc[t] = "done" /\ execRes[t].kind = "ChildExit")
            => /\ t \in onError
               /\ "build-failed" \in Events(t)
               /\ result[t] = execRes[t]
               /\ result[t] = ChildExit(childCode[t])
               /\ \E i \in DOMAIN errs : errs[i] = result[t]

\* continueOnError is set and the visitor has returned the child's error
C15_Witness ==
    /\ opts.continueOnError
    /\ \E t \in Tasks :
          /\ pc[t] = "done"
          /\ execRes[t].kind = "ChildExit"
          /\ result[t] # NoErr
          /\ t \in onError

\* ------------------------------------------------------------------- C16
\* C16: the step in which Exec returns ErrClosing records no outcome, calls
\* neither the on-error hook nor Close, saves nothing and hands no error to
\* the scheduler; the visitor then returns nil.
C16_ClosingIsSilent ==
    [][\A t \in Tasks :
          /\ (execRes[t] # ErrClosing /\ execRes'[t] = ErrClosing)
                => /\ pc'[t] = "writing"
                   /\ runState' = runState
                   /\ onError' = onError
                   /\ signalled' = signalled
                   /\ procState' \in {procState, "closed"}
                   /\ saveCalls' = saveCalls
                   /\ stored' = stored
                   /\ errs' = errs
          /\ (execRes'[t] = ErrClosing /\ pc'[t] = "done")
                => /\ result'[t] = NoErr
                   /\ t \notin onError'
                   /\ saveCalls'[t] = 0]_vars

\* a child that was running when the supervisor left open; its visitor
\* has returned
C16_Witness ==
    \E t \in Tasks :
        /\ execRes[t] = ErrClosing
        /\ t \in spawned
        /\ t \in signalled
        /\ pc[t] = "done"
        /\ result[t] = NoErr

\* ------------------------------------------------------------------- C17
\* C17: a task with an empty command whose visitor has returned has the
\* outcome skipped in the RunState, returned nil, and was neither restored,
\* spawned nor stored.
C17_EmptyCommandSkipped ==
    \A t \in Tasks :
        (command[t] = "" /\ pc[t] = "done")
            => /\ "skipped" \in Events(t)
               /\ result[t] = NoErr
               /\ "cached" \notin Events(t)
               /\ t \notin spawned
               /\ saveCalls[t] = 0

\* ------------------------------------------------------------------- C18
\* C18: when the visitor of a dependent D has started, every prerequisite T
\* of D has a hash in the tracker and an entry in the task-summary map.
C18_UpstreamRecorded ==
    \A d \in Tasks : \A t \in deps[d] :
        pc[d] # "waiting"
            => /\ hash[t] # EmptyHash
               /\ t \in DOMAIN taskSummaryMap

\* ------------------------------------------------------------------- C19
\* C19: after the end-of-run merge every summary in summary.Tasks carries the
\* RunState entry of its task.
C19_SummaryCarriesRunState ==
    mainPC \in {"close", "deferred", "returned"}
        => \A i \in DOMAIN summaryTasks :
              summaryTasks[i].RunSummary = runState[summaryTasks[i].TaskID]

\* ------------------------------------------------------------------- C20
\* C20: the tracer of a visit is called at most once: a RunState entry holds
\* the registration and at most one outcome.
C20_TracerAtMostOnce ==
    \A t \in Tasks : Len(runState[t]) <= 2

\* ------------------------------------------------------------------- C21
\* C21: once RealRun has returned, by whichever return statement (profiler
\* error, non-zero exit code, render error, success), the RunState mutex it
\* took after Execute is no longer held.
C21_MutexReleased ==
    returned \in {"profiler error", "ChildExit", "render error", "nil"}
        => ~runStateMu
====
